---- MODULE Spec2Model ----
(***************************************************************************)
(* The Salesforce case importer (src/importers/salesforce.tsx): the        *)
(* handlers that reach the network or the host record (filterValues,       *)
(* listCandidates, importRecord) and the apiRequest helper they share.     *)
(* The host may enter a handler while another one is suspended at an       *)
(* await, so the model runs the invocations of a small set of handler      *)
(* slots interleaved, one step per settled promise.                        *)
(*                                                                         *)
(* Text.  A JavaScript string is a sequence of fragments whose             *)
(* concatenation is the string.  A fragment drawn from an input is a       *)
(* single character (or, in the fixed ListView query, a word of unreserved *)
(* characters); a fragment written by the code is the literal of its       *)
(* template ("<p>", "<br>", "%20", ...).  A character a string of this     *)
(* module cannot hold (NUL, the backtick, every non-ASCII character) is    *)
(* written as the fragment "U+XXXX" of its UTF-16 code unit, so that a     *)
(* character above U+FFFF is the two fragments of its surrogate pair.      *)
(* A JavaScript value that may be null or undefined is a record            *)
(* [k |-> "string" | "null" | "undefined", v |-> text].                    *)
(***************************************************************************)
EXTENDS Integers, Sequences, FiniteSets, TLC

VARIABLES
    domain,     \* settings.domain, "" when the account setting is unset
    ahaRecord,  \* the host record handed to importRecord: [description]
    frames      \* per handler slot: the invocation running or last run in it

vars == <<domain, ahaRecord, frames>>

---------------------------------------------------------------------------
(* Bounds of the model *)

\* most rows in the records of a query response
MaxRecords == 2

\* most list views in the records of the ListView query response
MaxViews == 2

---------------------------------------------------------------------------
(* JavaScript values *)

Null == [k |-> "null", v |-> <<>>]

Undefined == [k |-> "undefined", v |-> <<>>]

Str(s) == [k |-> "string", v |-> s]

\* JavaScript truthiness of a string-or-null-or-undefined value
Falsy(x) == x.k # "string" \/ x.v = <<>>

\* `${s}` inside a template literal: an empty string contributes nothing
Tok(s) == IF s = "" THEN <<>> ELSE <<s>>

---------------------------------------------------------------------------
(* encodeQuery *)

\* the characters \s matches: tab, line feed, vertical tab, form feed,
\* carriage return, space, and the Unicode spaces and line terminators
WhiteSpace ==
    {" ", "\n", "\t", "\r", "\f", "",
     "U+00A0", "U+1680", "U+2000", "U+2001", "U+2002", "U+2003", "U+2004",
     "U+2005", "U+2006", "U+2007", "U+2008", "U+2009", "U+200A", "U+2028",
     "U+2029", "U+202F", "U+205F", "U+3000", "U+FEFF"}

\* query.replace(/\s+/g, ' '): every maximal run of whitespace becomes one space
RECURSIVE CollapseWhitespace(_)
CollapseWhitespace(q) ==
    IF q = <<>> THEN <<>>
    ELSE IF Head(q) \in WhiteSpace
         THEN IF Len(q) > 1 /\ q[2] \in WhiteSpace
              THEN CollapseWhitespace(Tail(q))
              ELSE <<" ">> \o CollapseWhitespace(Tail(q))
         ELSE <<Head(q)>> \o CollapseWhitespace(Tail(q))

\* The characters of a string, by UTF-16 code unit.  A fragment is either
\* literal text, whose characters are ASCII, or "U+XXXX", one code unit given by
\* its number (for a character above U+FFFF, the code point of the pair).

\* the control characters U+0001 .. U+001F, in order
ControlChars ==
    <<"", "", "", "", "", "", "", "",
      "\t", "\n", "", "\f", "\r", "", "", "",
      "", "", "", "", "", "", "", "",
      "", "", "", "", "", "", "">>

\* the characters U+0020 .. U+005F and U+0061 .. U+007E, in order
LowChars == " !\"#$%&'()*+,-./0123456789:;<=>?@ABCDEFGHIJKLMNOPQRSTUVWXYZ[\\]^_"

HighChars == "abcdefghijklmnopqrstuvwxyz{|}~"

HexDigits == "0123456789ABCDEF"

\* c.charCodeAt(0) for a one-character ASCII text c
CharCode(c) ==
    IF \E i \in 1..Len(ControlChars) : ControlChars[i] = c
    THEN CHOOSE i \in 1..Len(ControlChars) : ControlChars[i] = c
    ELSE IF \E i \in 1..Len(LowChars) : SubSeq(LowChars, i, i) = c
    THEN 31 + (CHOOSE i \in 1..Len(LowChars) : SubSeq(LowChars, i, i) = c)
    ELSE IF \E i \in 1..Len(HighChars) : SubSeq(HighChars, i, i) = c
    THEN 96 + (CHOOSE i \in 1..Len(HighChars) : SubSeq(HighChars, i, i) = c)
    ELSE 127

IsHexDigit(c) == \E i \in 1..16 : SubSeq(HexDigits, i, i) = c

HexValue(c) == (CHOOSE i \in 1..16 : SubSeq(HexDigits, i, i) = c) - 1

RECURSIVE HexNumber(_)
HexNumber(s) ==
    IF Len(s) = 0 THEN 0
    ELSE 16 * HexNumber(SubSeq(s, 1, Len(s) - 1))
            + HexValue(SubSeq(s, Len(s), Len(s)))

\* the fragment is a code unit written by number
IsCodeUnit(f) ==
    /\ Len(f) \in 6..8
    /\ SubSeq(f, 1, 2) = "U+"
    /\ \A i \in 3..Len(f) : IsHexDigit(SubSeq(f, i, i))

CodeUnit(f) == HexNumber(SubSeq(f, 3, Len(f)))

IsHighSurrogate(f) == IsCodeUnit(f) /\ CodeUnit(f) \in 55296..56319

IsLowSurrogate(f) == IsCodeUnit(f) /\ CodeUnit(f) \in 56320..57343

\* the code point a surrogate pair stands for
PairCodePoint(hi, lo) ==
    65536 + (CodeUnit(hi) - 55296) * 1024 + (CodeUnit(lo) - 56320)

\* uriUnreserved: A-Z a-z 0-9 - _ . ! ~ * ' ( )
Unreserved(n) ==
    \/ n \in 48..57
    \/ n \in 65..90
    \/ n \in 97..122
    \/ n \in {45, 95, 46, 33, 126, 42, 39, 40, 41}

\* %XX of one byte
EscapeByte(b) ==
    "%" \o SubSeq(HexDigits, (b \div 16) + 1, (b \div 16) + 1)
        \o SubSeq(HexDigits, (b % 16) + 1, (b % 16) + 1)

\* the %XX escapes of the UTF-8 bytes of a code point
Utf8Escape(cp) ==
    IF cp < 128 THEN EscapeByte(cp)
    ELSE IF cp < 2048
    THEN EscapeByte(192 + (cp \div 64)) \o EscapeByte(128 + (cp % 64))
    ELSE IF cp < 65536
    THEN EscapeByte(224 + (cp \div 4096))
            \o EscapeByte(128 + ((cp \div 64) % 64))
            \o EscapeByte(128 + (cp % 64))
    ELSE EscapeByte(240 + (cp \div 262144))
            \o EscapeByte(128 + ((cp \div 4096) % 64))
            \o EscapeByte(128 + ((cp \div 64) % 64))
            \o EscapeByte(128 + (cp % 64))

\* encodeURIComponent on literal text, character by character: an unreserved
\* character passes, every other one becomes the escape of its byte
RECURSIVE EncodeText(_)
EncodeText(t) ==
    IF Len(t) = 0 THEN ""
    ELSE LET c == SubSeq(t, 1, 1)
             n == CharCode(c)
         IN  (IF Unreserved(n) THEN c ELSE EscapeByte(n))
                \o EncodeText(SubSeq(t, 2, Len(t)))

\* encodeURIComponent on one fragment that is not a surrogate
EncodeFragment(f) ==
    IF IsCodeUnit(f)
    THEN LET n == CodeUnit(f)
         IN  IF n \in 32..126 /\ n # 96 /\ Unreserved(n)
             THEN (IF n < 96 THEN SubSeq(LowChars, n - 31, n - 31)
                             ELSE SubSeq(HighChars, n - 96, n - 96))
             ELSE Utf8Escape(n)
    ELSE EncodeText(f)

\* encodeURIComponent(q) throws URIError: q holds a surrogate without its
\* partner (a high one not followed by a low one, or a low one not preceded by
\* a high one)
RECURSIVE EncodeThrows(_)
EncodeThrows(q) ==
    IF q = <<>> THEN FALSE
    ELSE IF IsHighSurrogate(q[1])
    THEN IF Len(q) >= 2 /\ IsLowSurrogate(q[2])
         THEN EncodeThrows(SubSeq(q, 3, Len(q)))
         ELSE TRUE
    ELSE IF IsLowSurrogate(q[1]) THEN TRUE
    ELSE EncodeThrows(Tail(q))

\* encodeURIComponent(q) for a q it does not throw on: a surrogate pair is
\* encoded as the one code point it stands for
RECURSIVE EncodeURIComponent(_)
EncodeURIComponent(q) ==
    IF q = <<>> THEN <<>>
    ELSE IF IsHighSurrogate(q[1]) /\ Len(q) >= 2 /\ IsLowSurrogate(q[2])
    THEN <<Utf8Escape(PairCodePoint(q[1], q[2]))>>
            \o EncodeURIComponent(SubSeq(q, 3, Len(q)))
    ELSE <<EncodeFragment(q[1])>> \o EncodeURIComponent(Tail(q))

\* encodeQuery without the whitespace normalisation
encodeQueryNoCollapse(q) == EncodeURIComponent(q)

\* const encodeQuery = (query) => encodeURIComponent(query.replace(/\s+/g, ' ')),
\* for a query it does not throw on
encodeQuery(q) == EncodeURIComponent(CollapseWhitespace(q))

---------------------------------------------------------------------------
(* description.replace(/\r\n/g, '<br>') *)

\* replace(/\r\n/, '<br>'), without the g flag: the first pair only
RECURSIVE ReplaceFirstCrLf(_)
ReplaceFirstCrLf(s) ==
    IF Len(s) < 2 THEN s
    ELSE IF s[1] = "\r" /\ s[2] = "\n"
         THEN <<"<br>">> \o Tail(Tail(s))
         ELSE <<Head(s)>> \o ReplaceFirstCrLf(Tail(s))

RECURSIVE ReplaceCrLf(_)
ReplaceCrLf(s) ==
    IF Len(s) < 2 THEN s
    ELSE IF s[1] = "\r" /\ s[2] = "\n"
         THEN <<"<br>">> \o ReplaceCrLf(Tail(Tail(s)))
         ELSE <<Head(s)>> \o ReplaceCrLf(Tail(s))

---------------------------------------------------------------------------
(* Errors: [type, service, status, display].  `service` is the second      *)
(* argument of aha.AuthError, `status` the HTTP status quoted in the       *)
(* message, `display` whether a displayError (the remediation text) is     *)
(* attached.                                                               *)

NoError == [type |-> "none", service |-> "", status |-> 0, display |-> FALSE]

\* new aha.ConfigError('This importer requires the subdomain ...')
ConfigError ==
    [type |-> "ConfigError", service |-> "", status |-> 0, display |-> FALSE]

\* whatever aha.auth rejects with (user cancels, account not linked)
AuthRejection ==
    [type |-> "AuthUnavailable", service |-> "", status |-> 0, display |-> FALSE]

\* the catch block around fetch, without its displayError
FetchErrorPlain ==
    [type |-> "AuthError", service |-> "salesforce", status |-> 0,
     display |-> FALSE]

\* the catch block around fetch
FetchError ==
    [type |-> "AuthError", service |-> "salesforce", status |-> 0,
     display |-> TRUE]

\* new aha.AuthError(`Salesforce authentication error: ${response.status}`, 'salesforce')
StatusAuthError(status) ==
    [type |-> "AuthError", service |-> "salesforce", status |-> status,
     display |-> FALSE]

\* new Error(`Salesforce API error: ${response.status}`)
StatusError(status) ==
    [type |-> "Error", service |-> "", status |-> status, display |-> FALSE]

\* what response.json() rejects with when the body is not JSON
SyntaxError ==
    [type |-> "SyntaxError", service |-> "", status |-> 0, display |-> FALSE]

\* reading a property of undefined or null (x.replace, x.map); also what
\* response.json() rejects with when the body cannot be read to its end
TypeError ==
    [type |-> "TypeError", service |-> "", status |-> 0, display |-> FALSE]

\* what response.json() rejects with when the read of the body is aborted
AbortError ==
    [type |-> "AbortError", service |-> "", status |-> 0, display |-> FALSE]

\* the errors response.json() rejects with
JsonErrors == {SyntaxError, TypeError, AbortError}

\* what encodeURIComponent throws on a lone surrogate
URIError ==
    [type |-> "URIError", service |-> "", status |-> 0, display |-> FALSE]

\* whatever ahaRecord.save() rejects with
SaveError ==
    [type |-> "SaveError", service |-> "", status |-> 0, display |-> FALSE]

---------------------------------------------------------------------------
(* Remote data *)

\* "Hello\r\nWorld"
HelloWorld == <<"H", "e", "l", "l", "o", "\r", "\n", "W", "o", "r", "l", "d">>

\* Description texts: empty, a text with a lone newline, two pairs in a row
\* and a lone carriage return, and "Hello\r\nWorld"
DescTexts ==
    {<<>>, <<"\n", "\r", "\n", "\r", "\n", "\r">>, HelloWorld}

\* values a Description field takes: a text or null
DescValues == {Str(s) : s \in DescTexts} \cup {Null}

\* list-view query texts: whitespace alone; a mixed run of whitespace inside
\* and a non-ASCII character; whitespace at both ends with reserved characters
\* and a surrogate pair; a low surrogate without a high one before it; a high
\* surrogate without a low one after it
QueryTexts ==
    {<<"\n", " ">>, <<"S", "\r", "", "U+00A0", "\t", "S", "U+00E8">>,
     <<"\f", "<", "=", "&", "%", "U+D83D", "U+DE00", " ">>,
     <<"S", "U+DFFF">>, <<"U+D800", "S">>}

\* ApiResponse.query of a describe response
QueryValues == {Str(q) : q \in QueryTexts} \cup {Undefined}

\* one element of ApiResponse.records
RawRecord(id, name, subject, number, desc, status, priority) ==
    [Id |-> id, Name |-> name, Subject |-> subject, CaseNumber |-> number,
     Description |-> desc, Status |-> status, Priority |-> priority,
     attributes |-> [url |-> "/services/data/v54.0/sobjects/Case/" \o id]]

\* a Case row with the given optional fields
CaseRaw(id, desc, status, priority) ==
    RawRecord(id, "", "Subject " \o id, "0000" \o id, desc, status, priority)

\* first rows of a query result: every combination of null optional fields
ListedRaws ==
    {CaseRaw("5001", d, s, p) : d \in {Null, Str(<<"a">>)},
                                s \in {Null, Str(<<"New">>)},
                                p \in {Null, Str(<<"High">>)}}

CaseIds == <<"5001", "5002", "5003", "5004">>

\* n further rows, all optional fields null but a Description not selected
MoreRows(n) == [i \in 1..n |-> CaseRaw(CaseIds[i + 1], Undefined, Null, Null)]

\* the records of a query response: up to MaxRecords rows
CaseLists ==
    {<<>>} \cup {<<r>> : r \in ListedRaws}
           \cup {<<CaseRaw("5001", Null, Null, Null)>> \o MoreRows(n) :
                    n \in 1..(MaxRecords - 1)}

\* ListView rows: only Id and Name are selected
ViewRaw(id, name) == RawRecord(id, name, "", "", Undefined, Undefined, Undefined)

ViewIds == <<"00Bxx", "00Byy", "00Bzz", "00Bww">>

ViewLists == {[i \in 1..n |-> ViewRaw(ViewIds[i], "View " \o ViewIds[i])] :
                 n \in 0..MaxViews}

NoRecords == [has |-> FALSE, items |-> <<>>]

Records(items) == [has |-> TRUE, items |-> items]

\* a parsed JSON body: the fields the handlers read
Body(query, records, done, desc) ==
    [query |-> query, records |-> records, done |-> done, Description |-> desc]

EmptyBody == Body(Undefined, NoRecords, TRUE, Undefined)

\* the parsed bodies the remote answers each request shape with; a result is
\* cut short (done = false) only when it fills a page
Bodies(c) ==
    CASE c = "listViews" ->
           {Body(Undefined, Records(l), TRUE, Undefined) : l \in ViewLists}
           \cup {EmptyBody}
      [] c = "describe" ->
           {Body(q, NoRecords, TRUE, Undefined) : q \in QueryValues}
      [] c = "query" ->
           {Body(Undefined, Records(l), TRUE, Undefined) : l \in CaseLists}
           \cup {Body(Undefined, Records(l), FALSE, Undefined) :
                    l \in {m \in CaseLists : Len(m) = MaxRecords}}
           \cup {EmptyBody}
      [] c = "details" ->
           {Body(Undefined, NoRecords, TRUE, d) : d \in DescValues}
      [] OTHER -> {EmptyBody}

\* every parsed body of the model
AllBodies == UNION {Bodies(c) : c \in {"listViews", "describe", "query", "details"}}

\* HTTP statuses the remote answers with
Statuses == {200, 401, 403}

Tokens == {"tok1"}

Domains == {"", "acme"}

\* handler invocations that may be in flight together
Handlers == {"h1", "h2"}

---------------------------------------------------------------------------
(* Records *)

\* the object listCandidates maps a row to, on the subdomain d
CandidateAt(d, item) ==
    [uniqueId    |-> item.Id,
     name        |-> item.Subject,
     url         |-> <<"https://">> \o Tok(d)
                     \o <<".lightning.force.com/lightning/r/Case/", item.Id, "/view">>,
     caseNumber  |-> item.CaseNumber,
     description |-> item.Description,
     status      |-> item.Status,
     priority    |-> item.Priority,
     jsonUrl     |-> <<item.attributes.url>>]

\* a mapping that leaves a null optional field out of the candidate
ToCandidateDropNull(item) ==
    LET drop(x) == IF x.k = "null" THEN Undefined ELSE x
    IN  [CandidateAt(domain, item) EXCEPT !.description = drop(@),
                                          !.status = drop(@),
                                          !.priority = drop(@)]

\* item => ({uniqueId: item.Id, ...}) of listCandidates
ToCandidate(item) == CandidateAt(domain, item)

\* ({ Name, Id }) => ({ text: Name, value: Id }) of filterValues
ToFilterValue(item) == [text |-> item.Name, value |-> item.Id]

MapCandidates(items) == [i \in 1..Len(items) |-> ToCandidate(items[i])]

MapFilterValues(items) == [i \in 1..Len(items) |-> ToFilterValue(items[i])]

\* candidates the host hands to importRecord: rows listed earlier, while the
\* subdomain was set
ImportCandidates ==
    {CandidateAt("acme", CaseRaw("5001", d, Str(<<"New">>), Null)) :
        d \in DescValues}

NoCandidate ==
    CandidateAt("", RawRecord("", "", "", "", Undefined, Undefined, Undefined))

\* `<p><a href="${importRecord.url}">View in Salesforce</a></p>`
LinkParagraph(candidate) ==
    <<"<p><a href=\"">> \o candidate.url \o <<"\">View in Salesforce</a></p>">>

\* `<p>${text.replace(/\r\n/g, '<br>')}</p>${description}`
WithDescription(text, description) ==
    <<"<p>">> \o ReplaceCrLf(text) \o <<"</p>">> \o description

---------------------------------------------------------------------------
(* Results, calls and handler frames *)

\* the host record before any import: it holds an earlier description
OldRecord == [description |-> <<"<p>", "o", "l", "d", "</p>">>]

\* the handler's arguments: { filterName }, { filters }, { importRecord }
Request(action, filterName, listViewId, candidate) ==
    [action |-> action, filterName |-> filterName, listViewId |-> listViewId,
     candidate |-> candidate]

NoRequest == Request("none", "", Undefined, NoCandidate)

Pending == [status |-> "pending", records |-> <<>>, values |-> <<>>, err |-> NoError]

ReturnedRecords(records) ==
    [status |-> "returned", records |-> records, values |-> <<>>, err |-> NoError]

ReturnedValues(values) ==
    [status |-> "returned", records |-> <<>>, values |-> values, err |-> NoError]

ReturnedVoid == ReturnedRecords(<<>>)

Thrown(e) == [status |-> "thrown", records |-> <<>>, values |-> <<>>, err |-> e]

\* how far an apiRequest got: kind says which await (or check) decided it
ApiResult(kind, ok, status, body, err) ==
    [kind |-> kind, ok |-> ok, status |-> status, body |-> body, err |-> err]

NoApi == ApiResult("none", FALSE, 0, EmptyBody, NoError)

PendingApi == ApiResult("pending", FALSE, 0, EmptyBody, NoError)

\* if (!settings.domain) throw new aha.ConfigError(...)
ConfigFailure == ApiResult("config", FALSE, 0, EmptyBody, ConfigError)

\* await aha.auth(...) rejected
AuthFailure == ApiResult("noauth", FALSE, 0, EmptyBody, AuthRejection)

\* await fetch(...) rejected: catch (e) { throw new aha.AuthError(...) }
NetworkFailure == ApiResult("network", FALSE, 0, EmptyBody, FetchError)

\* response.ok
ResponseOk(status) == status >= 200 /\ status <= 299

\* fetch resolved with an ok response, response.json() is outstanding
ResponseReceived(status) == ApiResult("response", FALSE, status, EmptyBody, NoError)

\* response.json() resolved with the parsed body
Parsed(status, body) == ApiResult("parsed", TRUE, status, body, NoError)

\* response.json() rejected with e
JsonFailure(status, e) == ApiResult("json", FALSE, status, EmptyBody, e)

\* every 4xx status taken for an authentication failure
HttpFailureClientErrorsAuth(status) ==
    IF status >= 400 /\ status <= 499
    THEN ApiResult("http", FALSE, status, EmptyBody, StatusAuthError(status))
    ELSE ApiResult("http", FALSE, status, EmptyBody, StatusError(status))

\* the throws at the tail of apiRequest, for a response that is not ok
HttpFailure(status) ==
    IF status = 401
    THEN ApiResult("http", FALSE, status, EmptyBody, StatusAuthError(status))
    ELSE ApiResult("http", FALSE, status, EmptyBody, StatusError(status))

AuthEv == [ev |-> "auth", url |-> <<"salesforce">>, token |-> ""]

FetchEv(u, t) == [ev |-> "fetch", url |-> u, token |-> t]

SaveEv == [ev |-> "save", url |-> <<>>, token |-> ""]

\* base: string = '/services/data/v54.0'
DefaultBase == "/services/data/v54.0"

\* `https://${settings.domain}.my.salesforce.com${base}` + url
ApiUrl(base, path) ==
    <<"https://">> \o Tok(domain) \o <<".my.salesforce.com">> \o Tok(base) \o path

\* SELECT Id, Name FROM ListView WHERE SobjectType = 'Case', trimmed
ListViewsQuery ==
    <<"SELECT", " ", "Id", ",", " ", "Name", " ", "FROM", " ", "ListView", " ",
      "WHERE", " ", "SobjectType", " ", "=", " ", "'Case'">>

QueryPath(q) == <<"/query/?q=">> \o encodeQuery(q)

\* `/query/?q=${encodeQuery(...)}` of the ListView query
ListViewsPath == QueryPath(ListViewsQuery)

DescribePath(listViewId) ==
    <<"/sobjects/Case/listviews/">> \o listViewId \o <<"/describe">>

\* One invocation of a handler.
\*   pc       where it stands: "idle" (slot never used), "config" (it awaits
\*            the apiRequest that threw the ConfigError), "auth", "fetch",
\*            "json", "save" (the promise it awaits), "done" (settled)
\*   req      its arguments
\*   call     which apiRequest it is in: "listViews", "describe", "query",
\*            "details", or "none"
\*   url      the URL that apiRequest fetches
\*   api      how far that apiRequest got, or how the last one settled
\*   describe the query of the describe response (listCandidates)
\*   written  what it assigned to ahaRecord.description (importRecord)
\*   outcome  what the handler's promise settled with
\*   saved    ahaRecord.save(): "none", "pending", "ok", "failed"
\*   trace    its calls of aha.auth, fetch and ahaRecord.save, in order
\*   alone    (importRecord) no other importRecord has been in flight
\*            together with it
\*   last     it is the importRecord that finished last, and ran alone
\*   after    the slot of the importRecord it directly follows, or "none"
Frame(pc, r) ==
    [pc |-> pc, req |-> r, call |-> "none", url |-> <<>>, api |-> NoApi,
     describe |-> Undefined, written |-> <<>>, outcome |-> Pending,
     saved |-> "none", trace |-> <<>>, alone |-> TRUE, last |-> FALSE,
     after |-> "none"]

IdleFrame == Frame("idle", NoRequest)

\* a handler entered with arguments r
Entered(r) == Frame("run", r)

---------------------------------------------------------------------------
(* Continuations of the invocation f: the frame it has when it next        *)
(* suspends at an await or settles.                                        *)

\* the handler's promise settles with o; a is the last apiRequest's result
Settled(f, o, a) ==
    [f EXCEPT !.pc = "done", !.call = "none", !.url = <<>>, !.api = a,
              !.outcome = o]

\* ahaRecord.description += description
WriteAndSaveAppend(f, content, a) ==
    [f EXCEPT !.pc = "save", !.call = "none", !.url = <<>>, !.api = a,
              !.written = ahaRecord.description \o content,
              !.saved = "pending", !.trace = Append(@, SaveEv)]

\* ahaRecord.description = description; await ahaRecord.save()
WriteAndSave(f, content, a) ==
    [f EXCEPT !.pc = "save", !.call = "none", !.url = <<>>, !.api = a,
              !.written = content,
              !.saved = "pending", !.trace = Append(@, SaveEv)]

\* importRecord without its try/catch
RejectedRethrow(f, c, a) == Settled(f, Thrown(a.err), a)

\* listCandidates and filterValues with a catch that returns nothing
RejectedSwallow(f, c, a) ==
    CASE c = "details"   -> WriteAndSave(f, LinkParagraph(f.req.candidate), a)
      [] c = "listViews" -> Settled(f, ReturnedValues(<<>>), a)
      [] OTHER           -> Settled(f, ReturnedRecords(<<>>), a)

\* apiRequest rejected with a.err: importRecord catches it and goes on with the
\* link alone, the other handlers let it through
Rejected(f, c, a) ==
    IF c = "details"
    THEN WriteAndSave(f, LinkParagraph(f.req.candidate), a)
    ELSE Settled(f, Thrown(a.err), a)

\* apiRequest without the settings.domain check
ApiRequestUnchecked(f, c, path, base) ==
    [f EXCEPT !.pc = "auth", !.call = c, !.url = ApiUrl(base, path),
              !.api = PendingApi, !.trace = Append(@, AuthEv)]

\* apiRequest(path, base) up to its first await, or to its throw: the handler
\* awaits the promise either way
ApiRequest(f, c, path, base) ==
    IF domain = ""
    THEN [f EXCEPT !.pc = "config", !.call = c, !.api = ConfigFailure]
    ELSE [f EXCEPT !.pc = "auth", !.call = c, !.url = ApiUrl(base, path),
                   !.api = PendingApi, !.trace = Append(@, AuthEv)]

\* apiRequest resolved with the body a.body: the handler goes on
Resolved(f, c, a) ==
    CASE c = "listViews" ->
           IF a.body.records.has
           THEN Settled(f, ReturnedValues(MapFilterValues(a.body.records.items)), a)
           ELSE Settled(f, Thrown(TypeError), a)
      [] c = "describe" ->
           IF a.body.query.k # "string"
           THEN Settled([f EXCEPT !.describe = a.body.query], Thrown(TypeError), a)
           ELSE IF EncodeThrows(CollapseWhitespace(a.body.query.v))
                THEN Settled([f EXCEPT !.describe = a.body.query], Thrown(URIError), a)
                ELSE ApiRequest([f EXCEPT !.describe = a.body.query], "query",
                                QueryPath(a.body.query.v), DefaultBase)
      [] c = "query" ->
           IF a.body.records.has
           THEN Settled(f, ReturnedRecords(MapCandidates(a.body.records.items)), a)
           ELSE Settled(f, Thrown(TypeError), a)
      [] c = "details" ->
           IF a.body.Description.k = "string"
           THEN WriteAndSave(f, WithDescription(a.body.Description.v,
                                                LinkParagraph(f.req.candidate)), a)
           ELSE WriteAndSave(f, LinkParagraph(f.req.candidate), a)

\* the awaited apiRequest settled with a
ApiSettled(f, c, a) ==
    IF a.ok THEN Resolved(f, c, a) ELSE Rejected(f, c, a)

\* fetch resolved with a response: not ok throws at once, ok goes on to
\* return response.json()
Responded(f, status) ==
    IF ResponseOk(status)
    THEN [f EXCEPT !.pc = "json", !.api = ResponseReceived(status)]
    ELSE ApiSettled(f, f.call, HttpFailure(status))

---------------------------------------------------------------------------
(* Steps *)

\* the slot h holds no invocation in flight
Free(h) == frames[h].pc \in {"idle", "done"}

\* an importRecord is in flight in slot g
ImportInFlight(g) ==
    frames[g].req.action = "importRecord" /\ ~Free(g)

\* the slot holding the importRecord that finished last and ran alone
LastImport ==
    IF \E g \in Handlers : frames[g].last
    THEN CHOOSE g \in Handlers : frames[g].last
    ELSE "none"

\* the invocation in slot h moves on to the frame f; entering "save" is the
\* assignment to ahaRecord.description
Step(h, f) ==
    /\ frames' = [frames EXCEPT ![h] = f]
    /\ ahaRecord' = IF f.pc = "save"
                    THEN [ahaRecord EXCEPT !.description = f.written]
                    ELSE ahaRecord
    /\ UNCHANGED domain

\* the host enters a handler in slot h; f is the frame at its first await
Begin(h, f) ==
    LET import == f.req.action = "importRecord"
        others == Handlers \ {h}
        mine   == [f EXCEPT !.alone = import => ~ \E g \in others : ImportInFlight(g),
                            !.after = IF import /\ LastImport # h
                                      THEN LastImport ELSE "none"]
        other(g) == [frames[g] EXCEPT
                        !.after = IF @ = h THEN "none" ELSE @,
                        !.last  = IF import THEN FALSE ELSE @,
                        !.alone = IF import /\ ImportInFlight(g) THEN FALSE ELSE @]
    IN  /\ frames' = [g \in Handlers |-> IF g = h THEN mine ELSE other(g)]
        /\ ahaRecord' = IF f.pc = "save"
                        THEN [ahaRecord EXCEPT !.description = f.written]
                        ELSE ahaRecord
        /\ UNCHANGED domain

\* ahaRecord.save() of the importRecord in slot h settled
Finish(h, f) ==
    LET mine == [f EXCEPT !.last = f.alone]
    IN  /\ frames' = [g \in Handlers |->
                         IF g = h THEN mine ELSE [frames[g] EXCEPT !.last = FALSE]]
        /\ UNCHANGED <<domain, ahaRecord>>

FilterNames == {"listViewId", "status"}

ListViewIds == {Undefined, Str(<<>>), Str(<<"00Bxx">>)}

\* importer.on({ action: 'filterValues' }, ...)
FilterValues(h, filterName) ==
    /\ Free(h)
    /\ LET f == Entered(Request("filterValues", filterName, Undefined, NoCandidate))
       IN  Begin(h, IF filterName = "listViewId"
                    THEN ApiRequest(f, "listViews", ListViewsPath, DefaultBase)
                    ELSE Settled(f, ReturnedValues(<<>>), NoApi))

\* the early return taken only when filters.listViewId === undefined
ListCandidatesAbsentOnly(h, listViewId) ==
    /\ Free(h)
    /\ LET f == Entered(Request("listCandidates", "", listViewId, NoCandidate))
       IN  Begin(h, IF listViewId.k # "string"
                    THEN Settled(f, ReturnedRecords(<<>>), NoApi)
                    ELSE ApiRequest(f, "describe", DescribePath(listViewId.v), DefaultBase))

\* importer.on({ action: 'listCandidates' }, ...)
ListCandidates(h, listViewId) ==
    /\ Free(h)
    /\ LET f == Entered(Request("listCandidates", "", listViewId, NoCandidate))
       IN  Begin(h, IF Falsy(listViewId)
                    THEN Settled(f, ReturnedRecords(<<>>), NoApi)
                    ELSE ApiRequest(f, "describe", DescribePath(listViewId.v), DefaultBase))

\* importer.on({ action: 'importRecord' }, ...)
ImportRecord(h, candidate) ==
    /\ Free(h)
    /\ LET f == Entered(Request("importRecord", "", Undefined, candidate))
       IN  Begin(h, IF ~Falsy(candidate.description)
                    THEN WriteAndSave(f, WithDescription(candidate.description.v,
                                                         LinkParagraph(candidate)), NoApi)
                    ELSE ApiRequest(f, "details", candidate.jsonUrl, ""))

\* the handler resumes from await apiRequest(...), rejected with the ConfigError
ConfigReject(h) ==
    /\ frames[h].pc = "config"
    /\ Step(h, ApiSettled(frames[h], frames[h].call, ConfigFailure))

\* await aha.auth('salesforce', { useCachedRetry: true }) resolved: fetch is called
AuthResolve(h, token) ==
    /\ frames[h].pc = "auth"
    /\ Step(h, [frames[h] EXCEPT !.pc = "fetch",
                                 !.trace = Append(@, FetchEv(frames[h].url, token))])

\* await aha.auth(...) rejected
AuthReject(h) ==
    /\ frames[h].pc = "auth"
    /\ Step(h, ApiSettled(frames[h], frames[h].call, AuthFailure))

\* await fetch(...) rejected
FetchReject(h) ==
    /\ frames[h].pc = "fetch"
    /\ Step(h, ApiSettled(frames[h], frames[h].call, NetworkFailure))

\* await fetch(...) resolved with a response of the given status
FetchRespond(h, status) ==
    /\ frames[h].pc = "fetch"
    /\ Step(h, Responded(frames[h], status))

\* response.json() resolved with the parsed body
JsonResolve(h, body) ==
    /\ frames[h].pc = "json"
    /\ body \in Bodies(frames[h].call)
    /\ Step(h, ApiSettled(frames[h], frames[h].call,
                          Parsed(frames[h].api.status, body)))

\* response.json() rejected with e
JsonReject(h, e) ==
    /\ frames[h].pc = "json"
    /\ Step(h, ApiSettled(frames[h], frames[h].call,
                          JsonFailure(frames[h].api.status, e)))

\* await ahaRecord.save() resolved
SaveResolve(h) ==
    /\ frames[h].pc = "save"
    /\ Finish(h, [frames[h] EXCEPT !.pc = "done", !.saved = "ok",
                                   !.outcome = ReturnedVoid])

\* await ahaRecord.save() rejected
SaveReject(h) ==
    /\ frames[h].pc = "save"
    /\ Finish(h, [frames[h] EXCEPT !.pc = "done", !.saved = "failed",
                                   !.outcome = Thrown(SaveError)])

Init ==
    /\ domain \in Domains
    /\ ahaRecord = OldRecord
    /\ frames = [h \in Handlers |-> IdleFrame]

Next ==
    \E h \in Handlers :
        \/ \E f \in FilterNames : FilterValues(h, f)
        \/ \E l \in ListViewIds : ListCandidates(h, l)
        \/ \E c \in ImportCandidates : ImportRecord(h, c)
        \/ ConfigReject(h)
        \/ \E t \in Tokens : AuthResolve(h, t)
        \/ AuthReject(h)
        \/ FetchReject(h)
        \/ \E s \in Statuses : FetchRespond(h, s)
        \/ \E b \in AllBodies : JsonResolve(h, b)
        \/ \E e \in JsonErrors : JsonReject(h, e)
        \/ SaveResolve(h)
        \/ SaveReject(h)

Spec == Init /\ [][Next]_vars

---------------------------------------------------------------------------
(* Properties.  Each is stated of every invocation, whatever runs beside   *)
(* it in the other slots.                                                  *)

Fetches(h) == SelectSeq(frames[h].trace, LAMBDA e : e.ev = "fetch")

Auths(h) == SelectSeq(frames[h].trace, LAMBDA e : e.ev = "auth")

Saves(h) == SelectSeq(frames[h].trace, LAMBDA e : e.ev = "save")

Listing(h) == frames[h].req.action = "listCandidates"

Filtering(h) == frames[h].req.action = "filterValues"

Importing(h) == frames[h].req.action = "importRecord"

\* the handler asked for at least one apiRequest
Requested(h) ==
    \/ Filtering(h) /\ frames[h].req.filterName = "listViewId"
    \/ Listing(h) /\ ~Falsy(frames[h].req.listViewId)
    \/ Importing(h) /\ Falsy(frames[h].req.candidate.description)

\* the handler's promise rejected with the error of its apiRequest
Surfaced(h) ==
    /\ frames[h].pc = "done"
    /\ frames[h].outcome.status = "thrown"
    /\ frames[h].outcome.err = frames[h].api.err

\* the 'View in Salesforce' paragraph of the candidate handed to h
LinkOf(h) ==
    <<"<p><a href=\"">> \o frames[h].req.candidate.url
        \o <<"\">View in Salesforce</a></p>">>

\* C1: listCandidates invoked with listViewId absent or empty has returned an
\* empty record list and has issued no call at all: no credential
\* acquisition, no describe request, no query request.
C1_MissingFilterNoRemoteCall ==
    \A h \in Handlers :
        (Listing(h) /\ Falsy(frames[h].req.listViewId)) =>
            /\ frames[h].pc = "done"
            /\ frames[h].outcome = ReturnedRecords(<<>>)
            /\ frames[h].trace = <<>>
            /\ frames[h].api.kind = "none"

C1_Witness ==
    \E h \in Handlers :
        /\ Listing(h)
        /\ frames[h].req.listViewId = Str(<<>>)
        /\ frames[h].pc = "done"
        /\ domain = "acme"

\* C2: while the subdomain is unset no credential is asked for and no HTTP GET
\* is sent, and every apiRequest a handler made was rejected with the
\* ConfigError, which filterValues and listCandidates let through once they
\* resume from their await.
C2_UnsetDomainFailsBeforeHttp ==
    domain = "" =>
        \A h \in Handlers :
            /\ Fetches(h) = <<>>
            /\ Auths(h) = <<>>
            /\ frames[h].pc \notin {"auth", "fetch", "json"}
            /\ Requested(h) =>
                  /\ frames[h].api.kind = "config"
                  /\ ~frames[h].api.ok
                  /\ frames[h].api.err.type = "ConfigError"
                  /\ frames[h].pc = "config" => frames[h].trace = <<>>
                  /\ (Listing(h) \/ Filtering(h)) =>
                        \/ frames[h].pc = "config"
                        \/ Surfaced(h) /\ frames[h].outcome.err.type = "ConfigError"

C2_Witness ==
    \E h \in Handlers :
        /\ domain = ""
        /\ Filtering(h)
        /\ frames[h].req.filterName = "listViewId"
        /\ frames[h].pc = "done"
        /\ frames[h].api.kind = "config"

\* an apiRequest of h got a response and has settled
Classified(h) == frames[h].api.kind \in {"http", "parsed", "json"}

\* C3 as claimed: the status alone decides: every 2xx response resolves the
\* request with the parsed JSON body.
C3_Original ==
    \A h \in Handlers :
        (Classified(h) /\ frames[h].api.status \in 200..299) =>
            (frames[h].api.ok /\ frames[h].api.err.type = "none")

\* C3, amended: a 2xx response resolves the request with the parsed JSON
\* body when response.json() resolves and rejects it with the error of
\* response.json() when it does not (a SyntaxError for a body that is not
\* JSON, the error of the read for a body that cannot be read); 401 rejects
\* with an AuthError tagged 'salesforce'; any other status rejects with a
\* plain Error carrying the status; filterValues and listCandidates reject
\* with that very error, the error of response.json() included.
C3_StatusClassification ==
    \A h \in Handlers :
        Classified(h) =>
            LET a == frames[h].api
            IN  /\ (a.status \in 200..299) =>
                      \/ a.kind = "parsed" /\ a.ok /\ a.err.type = "none"
                      \/ /\ a.kind = "json"
                         /\ ~a.ok
                         /\ a.err.type \in {"SyntaxError", "TypeError", "AbortError"}
                /\ a.status = 401 =>
                      /\ ~a.ok
                      /\ a.err.type = "AuthError"
                      /\ a.err.service = "salesforce"
                /\ (a.status \notin 200..299 /\ a.status # 401) =>
                      /\ ~a.ok
                      /\ a.err.type = "Error"
                      /\ a.err.status = a.status
                /\ (~a.ok /\ (Listing(h) \/ Filtering(h))) => Surfaced(h)
                /\ (a.ok /\ Filtering(h) /\ a.body.records.has) =>
                      /\ frames[h].pc = "done"
                      /\ frames[h].outcome.status = "returned"
                      /\ Len(frames[h].outcome.values) = Len(a.body.records.items)

C3_Witness ==
    \E h \in Handlers :
        /\ Listing(h)
        /\ frames[h].pc = "done"
        /\ frames[h].api.kind = "json"
        /\ frames[h].api.status = 200
        /\ Len(Fetches(h)) = 2
        /\ frames[h].outcome.err.type = "SyntaxError"

\* C4 as claimed: the error of a network-level failure is of a class other
\* than the AuthError raised for HTTP 401 and other than the plain Error.
C4_Original ==
    \A h \in Handlers :
        frames[h].api.kind = "network" =>
            frames[h].api.err.type
                \notin {StatusAuthError(401).type, StatusError(500).type}

\* C4, amended: a network-level failure rejects apiRequest with an AuthError
\* tagged 'salesforce', the class also raised for HTTP 401, carrying the
\* remediation text as its displayError; it equals neither the 401 error nor
\* any plain status Error, and filterValues and listCandidates reject with it.
C4_NetworkFailureIsAuthErrorWithRemediation ==
    \A h \in Handlers :
        frames[h].api.kind = "network" =>
            /\ ~frames[h].api.ok
            /\ frames[h].api.err.type = "AuthError"
            /\ frames[h].api.err.service = "salesforce"
            /\ frames[h].api.err.display
            /\ \A st \in Statuses :
                  /\ frames[h].api.err # StatusAuthError(st)
                  /\ frames[h].api.err # StatusError(st)
            /\ (Listing(h) \/ Filtering(h)) => Surfaced(h)

C4_Witness ==
    \E h \in Handlers :
        /\ frames[h].api.kind = "network"
        /\ Listing(h)
        /\ frames[h].pc = "done"
        /\ frames[h].outcome.err.type = "AuthError"
        /\ frames[h].outcome.err.display

\* C5: importRecord of a candidate without description attempts one
\* apiRequest, hence at most one fetch, and that one for the candidate's
\* jsonUrl with an empty base path; when the attempt fails, at any of its
\* steps, or brings no Description text, what it writes to the record's
\* description is the link paragraph alone, and save is called exactly once.
\* importRecord rejects exactly when save does.
C5_FallbackFetchIsNotFatal ==
    \A h \in Handlers :
        /\ (Importing(h) /\ Falsy(frames[h].req.candidate.description)) =>
              /\ Len(Fetches(h)) <= 1
              /\ Len(Auths(h)) <= 1
              /\ \A i \in 1..Len(Fetches(h)) :
                    Fetches(h)[i].url =
                        <<"https://", domain, ".my.salesforce.com">>
                            \o frames[h].req.candidate.jsonUrl
              /\ frames[h].pc \in {"config", "auth", "fetch", "json", "save", "done"}
              /\ frames[h].pc \in {"save", "done"} =>
                    /\ Len(Saves(h)) = 1
                    /\ frames[h].api.kind \in
                          {"config", "noauth", "network", "http", "json", "parsed"}
                    /\ (~frames[h].api.ok
                          \/ frames[h].api.body.Description.k # "string") =>
                            frames[h].written = LinkOf(h)
        /\ (Importing(h) /\ frames[h].pc = "save" /\ frames[h].alone) =>
              ahaRecord.description = frames[h].written
        /\ (Importing(h) /\ frames[h].pc = "done") =>
              /\ Len(Saves(h)) = 1
              /\ frames[h].saved \in {"ok", "failed"}
              /\ (frames[h].outcome.status = "thrown") <=> (frames[h].saved = "failed")
              /\ (frames[h].outcome.status = "returned") <=> (frames[h].saved = "ok")

C5_Witness ==
    \E h \in Handlers :
        /\ Importing(h)
        /\ frames[h].req.candidate.description = Null
        /\ frames[h].pc = "done"
        /\ frames[h].api.kind = "network"
        /\ Len(Fetches(h)) = 1
        /\ frames[h].saved = "ok"
        /\ frames[h].outcome.status = "returned"
        /\ frames[h].written = LinkParagraph(frames[h].req.candidate)
        /\ ahaRecord.description = frames[h].written

\* C6 as claimed: once the credential acquisition of a request failed, the
\* handler that issued it ends with that failure, whichever handler it is.
C6_Original ==
    \A h \in Handlers :
        (frames[h].api.kind = "noauth" /\ frames[h].pc = "done") =>
            frames[h].outcome = Thrown(AuthRejection)

\* C6, amended: when aha.auth rejects, no fetch is issued for that request;
\* filterValues and listCandidates reject with the rejection as it is, while
\* importRecord catches it like any other failure of its fallback fetch,
\* writes the link paragraph alone, saves, and rejects only if save does.
C6_AuthFailurePropagatesExceptInImport ==
    \A h \in Handlers :
        frames[h].api.kind = "noauth" =>
            /\ ~frames[h].api.ok
            /\ Len(Fetches(h)) = Len(Auths(h)) - 1
            /\ (Listing(h) \/ Filtering(h)) =>
                  (frames[h].pc = "done" /\ frames[h].outcome = Thrown(AuthRejection))
            /\ Importing(h) =>
                  /\ Fetches(h) = <<>>
                  /\ frames[h].pc \in {"save", "done"}
                  /\ Len(Saves(h)) = 1
                  /\ frames[h].written = LinkOf(h)
                  /\ frames[h].pc = "done" =>
                        ((frames[h].outcome.status = "thrown")
                            <=> (frames[h].saved = "failed"))

C6_Witness ==
    \E h \in Handlers :
        /\ frames[h].api.kind = "noauth"
        /\ Importing(h)
        /\ frames[h].pc = "done"
        /\ frames[h].saved = "ok"
        /\ frames[h].outcome = ReturnedVoid

\* the fragments of a text joined into one string
RECURSIVE Joined(_)
Joined(q) == IF q = <<>> THEN "" ELSE q[1] \o Joined(Tail(q))

\* t is made of unreserved characters and %XX escapes only
RECURSIVE PercentEncoded(_)
PercentEncoded(t) ==
    LET safe == "ABCDEFGHIJKLMNOPQRSTUVWXYZabcdefghijklmnopqrstuvwxyz0123456789-_.!~*'()"
        hex == "0123456789ABCDEF"
        In(c, set) == \E i \in 1..Len(set) : SubSeq(set, i, i) = c
    IN  IF Len(t) = 0 THEN TRUE
        ELSE IF SubSeq(t, 1, 1) = "%"
        THEN /\ Len(t) >= 3
             /\ In(SubSeq(t, 2, 2), hex)
             /\ In(SubSeq(t, 3, 3), hex)
             /\ PercentEncoded(SubSeq(t, 4, Len(t)))
        ELSE /\ In(SubSeq(t, 1, 1), safe)
             /\ PercentEncoded(SubSeq(t, 2, Len(t)))

\* the q parameter of each list-view query text that has one: its runs of
\* whitespace as one %20, its other characters as their UTF-8 escapes
QueryParameter(text) ==
    CASE text = <<"\n", " ">> -> "%20"
      [] text = <<"S", "\r", "", "U+00A0", "\t", "S", "U+00E8">> -> "S%20S%C3%A8"
      [] text = <<"\f", "<", "=", "&", "%", "U+D83D", "U+DE00", " ">>
            -> "%20%3C%3D%26%25%F0%9F%98%80%20"
      [] OTHER -> "?"

\* the text holds a surrogate that is not half of a pair
Unpaired(text) ==
    LET High(f) == Len(f) = 6 /\ SubSeq(f, 1, 3) = "U+D"
                             /\ SubSeq(f, 4, 4) \in {"8", "9", "A", "B"}
        Low(f) == Len(f) = 6 /\ SubSeq(f, 1, 3) = "U+D"
                            /\ SubSeq(f, 4, 4) \in {"C", "D", "E", "F"}
    IN  \E i \in 1..Len(text) :
            \/ High(text[i]) /\ ~(i < Len(text) /\ Low(text[i + 1]))
            \/ Low(text[i]) /\ ~(i > 1 /\ High(text[i - 1]))

\* the describe request of the listCandidates in slot h was answered with a
\* body: a second apiRequest began, or the handler ended on that body
DescribeAnswered(h) ==
    \/ Len(Auths(h)) = 2
    \/ Len(Auths(h)) = 1 /\ frames[h].api.kind = "parsed"

\* C7 as stated: a listCandidates with a listViewId whose describe request was
\* answered has, once it is over, sent exactly one query request after it.
C7_Original ==
    \A h \in Handlers :
        (/\ Listing(h)
         /\ ~Falsy(frames[h].req.listViewId)
         /\ DescribeAnswered(h)
         /\ frames[h].pc = "done") =>
            Len(Fetches(h)) = 2

\* C7: listCandidates with a listViewId issues its requests in a fixed order:
\* each fetch follows a credential acquisition; the first fetch is the describe
\* request of that listViewId; there is no second one before the describe
\* request is answered, nor when it fails.  Once it is answered, a query
\* request is sent exactly when the answer holds a query text without an
\* unpaired surrogate and the credentials for it are acquired; its q parameter
\* is that text, whitespace-normalised and percent-encoded.  An answer without
\* a query text ends the handler with a TypeError, one with an unpaired
\* surrogate with a URIError, both after the describe request alone.  There is
\* never a third request, whatever `done` says, and the handler returns
\* candidates only after the query request.
C7_DescribeThenQueryOnce ==
    \A h \in Handlers :
        (Listing(h) /\ ~Falsy(frames[h].req.listViewId)) =>
            /\ Len(Fetches(h)) <= 2
            /\ Saves(h) = <<>>
            /\ \A i \in 1..Len(frames[h].trace) :
                  frames[h].trace[i].ev = (IF i % 2 = 1 THEN "auth" ELSE "fetch")
            /\ Len(Fetches(h)) >= 1 =>
                  Fetches(h)[1].url =
                      <<"https://", domain, ".my.salesforce.com",
                        "/services/data/v54.0", "/sobjects/Case/listviews/">>
                          \o frames[h].req.listViewId.v \o <<"/describe">>
            /\ Len(Fetches(h)) = 2 =>
                  /\ frames[h].describe.k = "string"
                  /\ ~Unpaired(frames[h].describe.v)
                  /\ LET u == Fetches(h)[2].url
                         q == Joined(SubSeq(u, 6, Len(u)))
                     IN  /\ SubSeq(u, 1, 5) =
                                <<"https://", domain, ".my.salesforce.com",
                                  "/services/data/v54.0", "/query/?q=">>
                         /\ PercentEncoded(q)
                         /\ q = QueryParameter(frames[h].describe.v)
            /\ ~DescribeAnswered(h) => Len(Fetches(h)) <= 1
            /\ DescribeAnswered(h) =>
                  IF frames[h].describe.k = "string" /\ ~Unpaired(frames[h].describe.v)
                  THEN /\ Len(Auths(h)) = 2
                       /\ Len(Fetches(h)) = 2 <=>
                             ~(frames[h].pc = "auth" \/ frames[h].api.kind = "noauth")
                  ELSE /\ Len(Fetches(h)) = 1
                       /\ frames[h].pc = "done"
                       /\ frames[h].outcome.status = "thrown"
                       /\ frames[h].outcome.err.type =
                             (IF frames[h].describe.k = "string"
                              THEN "URIError" ELSE "TypeError")
            /\ (frames[h].pc = "done" /\ frames[h].outcome.status = "returned") =>
                  Len(Fetches(h)) = 2

C7_Witness ==
    \E h \in Handlers :
        /\ Listing(h)
        /\ frames[h].pc = "done"
        /\ frames[h].outcome.status = "returned"
        /\ frames[h].describe =
              Str(<<"\f", "<", "=", "&", "%", "U+D83D", "U+DE00", " ">>)
        /\ Len(Fetches(h)) = 2
        /\ SubSeq(Fetches(h)[2].url, 6, 12) =
              <<"%20", "%3C", "%3D", "%26", "%25", "%F0%9F%98%80", "%20">>
        /\ frames[h].api.body.done = FALSE
        /\ Len(frames[h].outcome.records) = MaxRecords

\* the importRecord in slot h directly follows the finished one in slot g,
\* with the same candidate and record, and has written its description
Repeats(h, g) ==
    /\ Importing(h)
    /\ frames[h].pc = "save"
    /\ frames[h].after = g
    /\ frames[g].req.candidate = frames[h].req.candidate

\* C8 as claimed: a second importRecord with the same candidate and record
\* leaves the description the first one left, also when the candidate has no
\* description and each call makes its own fallback fetch.
C8_Original ==
    \A h \in Handlers, g \in Handlers :
        Repeats(h, g) => ahaRecord.description = frames[g].written

\* C8, amended: a second importRecord with the same candidate and record
\* overwrites the description and never appends to it: it leaves the
\* description the first call left whenever the candidate has a description
\* or the fallback fetch settled the same way in both calls.
C8_OverwriteNotAppend ==
    \A h \in Handlers, g \in Handlers :
        (Repeats(h, g) /\ (~Falsy(frames[h].req.candidate.description)
                              \/ frames[g].api = frames[h].api)) =>
            ahaRecord.description = frames[g].written

C8_Witness ==
    \E h \in Handlers, g \in Handlers :
        /\ Repeats(h, g)
        /\ frames[h].req.candidate.description = Null
        /\ frames[h].api.ok
        /\ frames[h].api.body.Description = Str(HelloWorld)
        /\ frames[g].api = frames[h].api
        /\ ahaRecord.description = frames[g].written

\* the text a paragraph body stands for, line breaks expanded again
RECURSIVE ExpandBr(_)
ExpandBr(x) ==
    IF x = <<>> THEN <<>>
    ELSE IF Head(x) = "<br>"
         THEN <<"\r", "\n">> \o ExpandBr(Tail(x))
         ELSE <<Head(x)>> \o ExpandBr(Tail(x))

\* C9: importRecord of a candidate with a description issues no request; the
\* content written is one paragraph holding the description, each
\* carriage-return/newline pair replaced by a line break and nothing else
\* changed, followed by the 'View in Salesforce' link paragraph of the
\* candidate's url.
C9_PrimaryDescriptionThenLink ==
    \A h \in Handlers :
        (Importing(h) /\ ~Falsy(frames[h].req.candidate.description)) =>
            /\ frames[h].pc \in {"save", "done"}
            /\ Fetches(h) = <<>>
            /\ Auths(h) = <<>>
            /\ frames[h].api.kind = "none"
            /\ LET d == frames[h].written
                   n == Len(d) - (Len(frames[h].req.candidate.url) + 2)
                   para == SubSeq(d, 1, n)
                   body == SubSeq(para, 2, n - 1)
               IN  /\ n >= 2
                   /\ para[1] = "<p>"
                   /\ para[n] = "</p>"
                   /\ ExpandBr(body) = frames[h].req.candidate.description.v
                   /\ \A i \in 1..(Len(body) - 1) :
                         ~(body[i] = "\r" /\ body[i + 1] = "\n")
                   /\ SubSeq(d, n + 1, Len(d)) = LinkOf(h)

C9_Witness ==
    \E h \in Handlers :
        /\ Importing(h)
        /\ frames[h].req.candidate.description = Str(HelloWorld)
        /\ frames[h].pc = "done"
        /\ frames[h].saved = "ok"
        /\ ahaRecord.description =
              <<"<p>", "H", "e", "l", "l", "o", "<br>", "W", "o", "r", "l", "d",
                "</p>", "<p><a href=\"", "https://", "acme",
                ".lightning.force.com/lightning/r/Case/", "5001", "/view",
                "\">View in Salesforce</a></p>">>

\* listCandidates got the rows of its query
Listed(h) ==
    /\ Listing(h)
    /\ frames[h].api.kind = "parsed"
    /\ frames[h].call = "none"
    /\ frames[h].api.body.records.has

\* C10 as claimed: a null status, priority or description of a raw row is
\* absent from the CandidateRecord made of it, not carried over as null.
C10_Original ==
    \A h \in Handlers :
        (Listed(h) /\ frames[h].pc = "done"
                   /\ frames[h].outcome.status = "returned") =>
            \A i \in 1..Len(frames[h].outcome.records) :
                LET raw == frames[h].api.body.records.items[i]
                    rec == frames[h].outcome.records[i]
                IN  /\ raw.Status = Null => rec.status.k = "undefined"
                    /\ raw.Priority = Null => rec.priority.k = "undefined"
                    /\ raw.Description = Null => rec.description.k = "undefined"

\* C10, amended: the transformation never throws on null status, priority or
\* description and the listing succeeds with one CandidateRecord per row;
\* each of the three fields is copied as it is, so a null field is carried
\* over as null and only a field missing from the row is absent.
C10_NullFieldsCopiedVerbatim ==
    \A h \in Handlers :
        Listed(h) =>
            /\ frames[h].pc = "done"
            /\ frames[h].outcome.status = "returned"
            /\ Len(frames[h].outcome.records) = Len(frames[h].api.body.records.items)
            /\ \A i \in 1..Len(frames[h].outcome.records) :
                  LET raw == frames[h].api.body.records.items[i]
                      rec == frames[h].outcome.records[i]
                  IN  /\ rec.status = raw.Status
                      /\ rec.priority = raw.Priority
                      /\ rec.description = raw.Description
                      /\ rec.uniqueId = raw.Id

C10_Witness ==
    \E h \in Handlers :
        /\ Listed(h)
        /\ frames[h].pc = "done"
        /\ Len(frames[h].outcome.records) = 2
        /\ frames[h].api.body.records.items[1].Status = Null
        /\ frames[h].api.body.records.items[1].Priority = Null
        /\ frames[h].api.body.records.items[1].Description = Null
        /\ frames[h].outcome.records[1].status = Null
        /\ frames[h].outcome.records[1].priority = Null
        /\ frames[h].outcome.records[1].description = Null

====
